---- MODULE Spec2Model ----
(***************************************************************************)
(* Model of src/main.py of f1-race-replay: the DRS activation predicate    *)
(* _lap_has_drs_activation and the sequential pipeline main(), with every  *)
(* external collaborator (FastF1 session loading, telemetry assembly, the  *)
(* replay windows) modelled as a call that either returns one of its       *)
(* possible values or raises.                                              *)
(***************************************************************************)
EXTENDS Integers, Sequences, FiniteSets, TLC

(* ------------------------------------------------------------------ *)
(* Bounds                                                             *)
(* ------------------------------------------------------------------ *)

\* longest DRS channel handed to _lap_has_drs_activation on its own
MaxDrsLen == 3

\* longest DRS channel of a lap's telemetry inside a run of main
MaxLapLen == 2

(* ------------------------------------------------------------------ *)
(* Values                                                             *)
(* ------------------------------------------------------------------ *)

\* One element of lap_telemetry["DRS"].to_numpy().  kind says what Python
\* object it is; val is its numeric value where it has one.
\*   num    a number (int / float / numpy scalar) of value val
\*   numstr a string holding the decimal numeral of val, e.g. "12"
\*   nan    float('nan')
\*   str    a string that is no numeral, e.g. "x"
\*   none   None
\*   bigint a Python int too large for a float, e.g. 10**400
Sample(kind, val) == [kind |-> kind, val |-> val]

NumericValues == {0, 9, 10, 15}

Samples ==
    {Sample("num", v) : v \in NumericValues}
        \cup {Sample("numstr", 12), Sample("nan", 0), Sample("str", 0),
              Sample("none", 0), Sample("bigint", 0)}

\* the samples drawn for the laps of a run of main
LapSamples ==
    {Sample("num", 0), Sample("num", 15), Sample("str", 0), Sample("bigint", 0)}

SeqsUpTo(S, n) == UNION {[1..k -> S] : k \in 0..n}

\* A lap's telemetry (a DataFrame), or None.
\*   owner    the lap it was materialised from ("race", "quali"), "arg" for a
\*            value passed to the predicate directly, "None" for None
\*   DRS      "missing": no DRS column; "broken": the column is there and
\*            .to_numpy() raises; "present": .to_numpy() returns values
\*   Distance 0 when there is no Distance column, else the column's maximum
Telemetry(owner, drs, values, dist) ==
    [owner |-> owner, DRS |-> drs, values |-> values, Distance |-> dist]

None == Telemetry("None", "missing", <<>>, 0)

DistanceValues == {0, 5000, 5001}

Telemetries(owner, S, n, D) ==
    {Telemetry(owner, "missing", <<>>, d) : d \in D}
        \cup {Telemetry(owner, "broken", <<>>, d) : d \in D}
        \cup {Telemetry(owner, "present", vs, d) : vs \in SeqsUpTo(S, n), d \in D}

(* ------------------------------------------------------------------ *)
(* _lap_has_drs_activation                                            *)
(* ------------------------------------------------------------------ *)

\* Python's float(value): the converted number, or the exception raised.
float(value) ==
    CASE value.kind = "num"    -> [exc |-> "none", nan |-> FALSE, val |-> value.val]
      [] value.kind = "numstr" -> [exc |-> "none", nan |-> FALSE, val |-> value.val]
      [] value.kind = "nan"    -> [exc |-> "none", nan |-> TRUE, val |-> 0]
      [] value.kind = "str"    -> [exc |-> "ValueError", nan |-> FALSE, val |-> 0]
      [] value.kind = "none"   -> [exc |-> "TypeError", nan |-> FALSE, val |-> 0]
      [] value.kind = "bigint" -> [exc |-> "OverflowError", nan |-> FALSE, val |-> 0]

\* float(value) >= 10 ; every comparison with NaN is False
AtLeastThreshold(f) == (~f.nan) /\ f.val >= 10

\* the exceptions the loop's handler catches
CaughtInLoop == {"TypeError", "ValueError"}

\* The for loop over drs_values from position i on: "True", "False", or the
\* name of the exception that leaves the function.
RECURSIVE ScanFrom(_, _)
ScanFrom(drs_values, i) ==
    IF i > Len(drs_values) THEN "False"
    ELSE LET f == float(drs_values[i]) IN
         IF f.exc = "none"
         THEN IF AtLeastThreshold(f) THEN "True" ELSE ScanFrom(drs_values, i + 1)
         ELSE IF f.exc \in CaughtInLoop THEN ScanFrom(drs_values, i + 1)
              ELSE f.exc

_lap_has_drs_activation(lap_telemetry) ==
    IF lap_telemetry = None \/ lap_telemetry.DRS = "missing" THEN "False"
    ELSE IF lap_telemetry.DRS = "broken" THEN "False"
    ELSE ScanFrom(lap_telemetry.values, 1)

(* ------------------------------------------------------------------ *)
(* State                                                              *)
(* ------------------------------------------------------------------ *)

VARIABLES
    arg,             \* the telemetry a direct call of _lap_has_drs_activation gets
    ret,             \* what that call produced; "pending" before the call
    year,            \* main's arguments
    round_number,
    session_type,
    pc,              \* the line of main about to run; "done" once main is left
    outcome,         \* "running", "returned" (main returned) or "raised"
    exc,             \* the exception that left main, "none" otherwise
    session,         \* main's locals, "unset" until assigned
    race_telemetry,
    fastest_lap,
    example_lap,
    quali_session,
    fastest_quali,
    quali_telemetry,
    session_info,
    caught,          \* the fallback step that raised and the exception caught
    calls,           \* every collaborator call and every _log line, in order
    loads,           \* the arguments of every load_session call, in order
    failed,          \* the statements outside the try whose call raised
    handoff          \* what the replay window was given

fnvars == <<arg, ret>>

mainvars ==
    <<year, round_number, session_type, pc, outcome, exc, session,
      race_telemetry, fastest_lap, example_lap, quali_session, fastest_quali,
      quali_telemetry, session_info, caught, calls, loads, failed, handoff>>

vars == <<fnvars, mainvars>>

(* ------------------------------------------------------------------ *)
(* Inputs and collaborator responses                                  *)
(* ------------------------------------------------------------------ *)

Years == {2025}

Rounds == {12}

SessionTypes == {"R", "S", "Q", "SQ"}

\* race_telemetry['total_laps'] as get_race_telemetry may report it
TotalLaps == {57, 58}

\* what Lap.get_telemetry() may return for a lap of the given session
LapTelemetries(owner) ==
    {None} \cup Telemetries(owner, LapSamples, MaxLapLen, DistanceValues)

\* the exception a failing collaborator call raises (a subclass of Exception)
CollaboratorError == "RuntimeError"

\* A lap picked by Laps.pick_fastest(): picked is "unset" before the pick,
\* "None" when the pick returned None, "lap" when it returned a lap;
\* telemetry is what the lap's get_telemetry() returned (None before that).
Lap(picked, telemetry) == [picked |-> picked, telemetry |-> telemetry]

\* The session the secondary load returned: state is "unset", "None" or
\* "loaded"; laps is what len(quali_session.laps) was found to be.
QualiSession(state, laps) == [state |-> state, laps |-> laps]

\* what the fallback's except clause caught: the step that raised, and e
Caught(step, e) == [step |-> step, exc |-> e]

NoneCaught == Caught("none", "none")

NoBundle == [total_laps |-> 0, assembled |-> FALSE]

NoSessionInfo == [total_laps |-> 0, circuit_length_m |-> 0, built |-> FALSE]

NoHandoff ==
    [to |-> "none", example_lap |-> None, total_laps |-> 0,
     session_info |-> NoSessionInfo]

(* ------------------------------------------------------------------ *)
(* main                                                               *)
(* ------------------------------------------------------------------ *)

\* _log(message): one more line on the log
Logged(trace, message) == Append(trace, "_log: " \o message)

\* an exception leaves main
Raise(e) ==
    /\ pc' = "done"
    /\ outcome' = "raised"
    /\ exc' = e

\* main goes on at line l
Goto(l) ==
    /\ pc' = l
    /\ UNCHANGED <<outcome, exc>>

\* the exception is wrapped in another type before it leaves main
Uncaught_Wrapped(step, e) ==
    /\ failed' = failed \cup {step}
    /\ Raise("SessionLoadError")

\* the exception is swallowed as the fallback's handler does, and main goes on
Uncaught_Swallowed(step, e) ==
    /\ failed' = failed \cup {step}
    /\ Goto("L117")

\* lines 53, 84, 91, 96: the call of a statement outside any try raises e;
\* nothing handles it, so e itself leaves main
Uncaught(step, e) ==
    /\ failed' = failed \cup {step}
    /\ Raise(e)

Init ==
    /\ arg = None
    /\ ret = "pending"
    /\ year \in Years
    /\ round_number \in Rounds
    /\ session_type \in SessionTypes
    /\ pc = "L44"
    /\ outcome = "running"
    /\ exc = "none"
    /\ session = "unset"
    /\ race_telemetry = NoBundle
    /\ fastest_lap = Lap("unset", None)
    /\ example_lap = None
    /\ quali_session = QualiSession("unset", "unknown")
    /\ fastest_quali = Lap("unset", None)
    /\ quali_telemetry = None
    /\ session_info = NoSessionInfo
    /\ caught = NoneCaught
    /\ calls = <<>>
    /\ loads = <<>>
    /\ failed = {}
    /\ handoff = NoHandoff

\* lines 44-45
Start ==
    /\ pc = "L44"
    /\ calls' = Logged(calls, "Loading F1")
    /\ Goto("L49")
    /\ UNCHANGED <<fnvars, failed, year, round_number, session_type, session,
                   race_telemetry, fastest_lap, example_lap, quali_session,
                   fastest_quali, quali_telemetry, session_info, caught,
                   loads, handoff>>

\* the cache is never enabled: main goes straight to the load
EnableCache_NotCalled ==
    /\ pc = "L49"
    /\ Goto("L53")
    /\ UNCHANGED <<fnvars, failed, year, round_number, session_type, session,
                   race_telemetry, fastest_lap, example_lap, quali_session,
                   fastest_quali, quali_telemetry, session_info, caught,
                   calls, loads, handoff>>

\* lines 48-50
EnableCache ==
    /\ pc = "L49"
    /\ \E ok \in BOOLEAN :
          IF ok
          THEN /\ calls' = Logged(Append(calls, "enable_cache"),
                                  "FastF1 cache initialized")
               /\ Goto("L53")
          ELSE /\ calls' = Append(calls, "enable_cache")
               /\ Raise(CollaboratorError)
    /\ UNCHANGED <<fnvars, failed, year, round_number, session_type, session,
                   race_telemetry, fastest_lap, example_lap, quali_session,
                   fastest_quali, quali_telemetry, session_info, caught,
                   loads, handoff>>

\* a qualifying-only branch test: 'SQ' falls into the race branch
Branch_OnlyQ(st) == IF st = "Q" THEN "L64" ELSE "L84"

\* the race branch resolves the layout without assembling the telemetry first
Branch_LayoutFirst(st) == IF st = "Q" \/ st = "SQ" THEN "L64" ELSE "L91"

\* line 59 (and the else of line 79): where main goes on after the load
Branch(st) == IF st = "Q" \/ st = "SQ" THEN "L64" ELSE "L84"

\* lines 52-59: the primary load, its log line and the branch on session_type
LoadSession ==
    /\ pc = "L53"
    /\ loads' = Append(loads, <<year, round_number, session_type>>)
    /\ \E r \in {"ok", "raise", "no EventName"} :
          CASE r = "ok" ->
                 /\ session' = "loaded"
                 /\ calls' = Logged(Append(calls, "load_session"), "Loaded session")
                 /\ Goto(Branch(session_type))
                 /\ UNCHANGED failed
            [] r = "raise" ->
                 /\ calls' = Append(calls, "load_session")
                 /\ Uncaught("load_session", CollaboratorError)
                 /\ UNCHANGED session
            [] r = "no EventName" ->
                 \* session.event['EventName'] of line 55 raises
                 /\ session' = "loaded"
                 /\ calls' = Append(calls, "load_session")
                 /\ Raise("KeyError")
                 /\ UNCHANGED failed
    /\ UNCHANGED <<fnvars, year, round_number, session_type, race_telemetry,
                   fastest_lap, example_lap, quali_session, fastest_quali,
                   quali_telemetry, session_info, caught, handoff>>

\* lines 63-70
GetQualiTelemetry ==
    /\ pc = "L64"
    /\ \E ok \in BOOLEAN :
          IF ok
          THEN /\ calls' = Logged(Logged(Append(calls, "get_quali_telemetry"),
                                         "Prepared qualifying telemetry dataset"),
                                  "Session ready for replay window")
               /\ Goto("L72")
          ELSE /\ calls' = Append(calls, "get_quali_telemetry")
               /\ Raise(CollaboratorError)
    /\ UNCHANGED <<fnvars, failed, year, round_number, session_type, session,
                   race_telemetry, fastest_lap, example_lap, quali_session,
                   fastest_quali, quali_telemetry, session_info, caught,
                   loads, handoff>>

\* the qualifying branch does not end main: the race branch runs after it
RunQualifyingReplay_FallsIntoRace ==
    /\ pc = "L72"
    /\ calls' = Append(calls, "run_qualifying_replay")
    /\ handoff' = [NoHandoff EXCEPT !.to = "run_qualifying_replay"]
    /\ \E ok \in BOOLEAN : IF ok THEN Goto("L84") ELSE Raise(CollaboratorError)
    /\ UNCHANGED <<fnvars, failed, year, round_number, session_type, session,
                   race_telemetry, fastest_lap, example_lap, quali_session,
                   fastest_quali, quali_telemetry, session_info, caught, loads>>

\* lines 72-77
RunQualifyingReplay ==
    /\ pc = "L72"
    /\ calls' = Append(calls, "run_qualifying_replay")
    /\ handoff' = [NoHandoff EXCEPT !.to = "run_qualifying_replay"]
    /\ \E ok \in BOOLEAN :
          IF ok
          THEN /\ pc' = "done"
               /\ outcome' = "returned"
               /\ UNCHANGED exc
          ELSE Raise(CollaboratorError)
    /\ UNCHANGED <<fnvars, failed, year, round_number, session_type, session,
                   race_telemetry, fastest_lap, example_lap, quali_session,
                   fastest_quali, quali_telemetry, session_info, caught, loads>>

\* lines 83-85
GetRaceTelemetry ==
    /\ pc = "L84"
    /\ \E ok \in BOOLEAN :
          IF ok
          THEN /\ \E n \in TotalLaps :
                     race_telemetry' = [total_laps |-> n, assembled |-> TRUE]
               /\ calls' = Logged(Append(calls, "get_race_telemetry"),
                                  "Prepared race telemetry dataset")
               /\ Goto("L91")
               /\ UNCHANGED failed
          ELSE /\ calls' = Append(calls, "get_race_telemetry")
               /\ Uncaught("get_race_telemetry", CollaboratorError)
               /\ UNCHANGED race_telemetry
    /\ UNCHANGED <<fnvars, year, round_number, session_type, session,
                   fastest_lap, example_lap, quali_session, fastest_quali,
                   quali_telemetry, session_info, caught, loads, handoff>>

\* the None test is missing: main goes on to fastest_lap.get_telemetry()
NoValidLaps_FallsThrough ==
    /\ calls' = Append(calls, "pick_fastest")
    /\ Goto("L96")

\* the error is logged but the return is missing
NoValidLaps_NoReturn ==
    /\ calls' = Logged(Append(calls, "pick_fastest"),
                       "Error: No valid laps found in session")
    /\ Goto("L96")

\* lines 92-94: pick_fastest returned None; log the error and return
NoValidLaps ==
    /\ calls' = Logged(Append(calls, "pick_fastest"),
                       "Error: No valid laps found in session")
    /\ pc' = "done"
    /\ outcome' = "returned"
    /\ UNCHANGED exc

\* lines 89-94
PickFastest ==
    /\ pc = "L91"
    /\ example_lap' = None
    /\ \E r \in {"lap", "None", "raise"} :
          CASE r = "lap" ->
                 /\ fastest_lap' = Lap("lap", None)
                 /\ calls' = Append(calls, "pick_fastest")
                 /\ Goto("L96")
                 /\ UNCHANGED failed
            [] r = "None" ->
                 /\ fastest_lap' = Lap("None", None)
                 /\ NoValidLaps
                 /\ UNCHANGED failed
            [] r = "raise" ->
                 /\ calls' = Append(calls, "pick_fastest")
                 /\ Uncaught("pick_fastest", CollaboratorError)
                 /\ UNCHANGED fastest_lap
    /\ UNCHANGED <<fnvars, year, round_number, session_type, session,
                   race_telemetry, quali_session, fastest_quali,
                   quali_telemetry, session_info, caught, loads, handoff>>

\* line 96
GetTelemetry ==
    /\ pc = "L96"
    /\ calls' = Append(calls, "get_telemetry")
    /\ \/ /\ example_lap' \in LapTelemetries("race")
          /\ fastest_lap' = Lap("lap", example_lap')
          /\ Goto("L98")
          /\ UNCHANGED failed
       \/ /\ Uncaught("get_telemetry", CollaboratorError)
          /\ UNCHANGED <<example_lap, fastest_lap>>
    /\ UNCHANGED <<fnvars, year, round_number, session_type, session,
                   race_telemetry, quali_session, fastest_quali,
                   quali_telemetry, session_info, caught, loads, handoff>>

\* the qualifying session is tried whatever the race lap shows
AfterPrimaryCheck_AlwaysFallback(activation) == "L104"

\* lines 98-102: the line main goes on at after testing the race lap
AfterPrimaryCheck(activation) == IF activation THEN "L117" ELSE "L104"

\* lines 98-101
CheckPrimary ==
    /\ pc = "L98"
    /\ LET r == _lap_has_drs_activation(example_lap) IN
         CASE r = "True" ->
                \* line 99 reads fastest_lap['Driver'], which may raise
                \E ok \in BOOLEAN :
                   IF ok
                   THEN /\ calls' = Logged(calls, "Using fastest race lap")
                        /\ Goto(AfterPrimaryCheck(TRUE))
                   ELSE /\ Raise("KeyError")
                        /\ UNCHANGED calls
           [] r = "False" ->
                /\ calls' = Logged(calls, "Race lap lacks clear DRS activation")
                /\ Goto(AfterPrimaryCheck(FALSE))
           [] OTHER ->
                /\ Raise(r)
                /\ UNCHANGED calls
    /\ UNCHANGED <<fnvars, failed, year, round_number, session_type, session,
                   race_telemetry, fastest_lap, example_lap, quali_session,
                   fastest_quali, quali_telemetry, session_info, caught,
                   loads, handoff>>

\* no try around the fallback: the exception leaves main
Catch_Propagates(step, e) ==
    /\ Raise(e)
    /\ UNCHANGED caught

\* lines 102, 114: an exception raised by a step inside the try enters the
\* except clause
Catch(step, e) ==
    /\ caught' = Caught(step, e)
    /\ Goto("L115")

\* a Sprint run falls back to the sprint qualifying session
FallbackLoadArgs_SprintQualifying(y, r, st) ==
    <<y, r, IF st = "S" THEN "SQ" ELSE "Q">>

\* line 104: the arguments of the secondary load_session call
FallbackLoadArgs(y, r, st) == <<y, r, "Q">>

\* lines 102-105: the secondary load, inside the try
QualiLoadSession ==
    /\ pc = "L104"
    /\ loads' = Append(loads, FallbackLoadArgs(year, round_number, session_type))
    /\ \E r \in {"loaded", "None", "raise"} :
          IF r = "raise"
          THEN /\ calls' = Append(calls, "load_session")
               /\ Catch("load_session", CollaboratorError)
               /\ UNCHANGED quali_session
          ELSE /\ quali_session' = QualiSession(r, "unknown")
               /\ calls' = Logged(Append(calls, "load_session"),
                                  "Loaded qualifying session for DRS zone extraction")
               /\ Goto("L107")
               /\ UNCHANGED caught
    /\ UNCHANGED <<fnvars, failed, year, round_number, session_type, session,
                   race_telemetry, fastest_lap, example_lap, fastest_quali,
                   quali_telemetry, session_info, handoff>>

\* line 107: quali_session is not None and len(quali_session.laps) > 0
QualiHasLaps ==
    /\ pc = "L107"
    /\ IF quali_session.state = "None"
       THEN /\ Goto("L117")
            /\ UNCHANGED <<caught, calls, quali_session>>
       ELSE /\ calls' = Append(calls, "len(quali_session.laps)")
            /\ \E r \in {"zero", "some", "raise"} :
                  CASE r = "zero" ->
                         /\ quali_session' = QualiSession("loaded", "zero")
                         /\ Goto("L117")
                         /\ UNCHANGED caught
                    [] r = "some" ->
                         /\ quali_session' = QualiSession("loaded", "some")
                         /\ Goto("L108")
                         /\ UNCHANGED caught
                    [] r = "raise" ->
                         /\ Catch("len(quali_session.laps)", CollaboratorError)
                         /\ UNCHANGED quali_session
    /\ UNCHANGED <<fnvars, failed, year, round_number, session_type, session,
                   race_telemetry, fastest_lap, example_lap,
                   fastest_quali, quali_telemetry, session_info, loads, handoff>>

\* lines 108-109
QualiPickFastest ==
    /\ pc = "L108"
    /\ calls' = Append(calls, "quali pick_fastest")
    /\ \E r \in {"lap", "None", "raise"} :
          CASE r = "lap" ->
                 /\ fastest_quali' = Lap("lap", None)
                 /\ Goto("L110")
                 /\ UNCHANGED caught
            [] r = "None" ->
                 /\ fastest_quali' = Lap("None", None)
                 /\ Goto("L117")
                 /\ UNCHANGED caught
            [] r = "raise" ->
                 /\ Catch("pick_fastest", CollaboratorError)
                 /\ UNCHANGED fastest_quali
    /\ UNCHANGED <<fnvars, failed, year, round_number, session_type, session,
                   race_telemetry, fastest_lap, example_lap, quali_session,
                   quali_telemetry, session_info, loads, handoff>>

\* line 110
QualiGetTelemetry ==
    /\ pc = "L110"
    /\ calls' = Append(calls, "quali get_telemetry")
    /\ \/ /\ quali_telemetry' \in LapTelemetries("quali")
          /\ fastest_quali' = Lap("lap", quali_telemetry')
          /\ Goto("L111")
          /\ UNCHANGED caught
       \/ /\ Catch("get_telemetry", CollaboratorError)
          /\ UNCHANGED <<quali_telemetry, fastest_quali>>
    /\ UNCHANGED <<fnvars, failed, year, round_number, session_type, session,
                   race_telemetry, fastest_lap, example_lap, quali_session,
                   session_info, loads, handoff>>

\* the qualifying lap is never taken
SelectLayout_KeepsRaceLap(activation, race_lap, quali_lap) == race_lap

\* the qualifying lap is taken without looking at its DRS channel
SelectLayout_AlwaysQuali(activation, race_lap, quali_lap) == quali_lap

\* lines 111-112: example_lap after the qualifying lap was tested
SelectLayout(activation, race_lap, quali_lap) ==
    IF activation THEN quali_lap ELSE race_lap

\* lines 111-113
QualiCheck ==
    /\ pc = "L111"
    /\ LET r == _lap_has_drs_activation(quali_telemetry) IN
         CASE r = "True" ->
                /\ example_lap' = SelectLayout(TRUE, example_lap, quali_telemetry)
                \* line 113 reads fastest_quali['Driver'], which may raise
                /\ \E ok \in BOOLEAN :
                      IF ok
                      THEN /\ calls' = Logged(calls, "Using qualifying lap")
                           /\ Goto("L117")
                           /\ UNCHANGED caught
                      ELSE /\ Catch("fastest_quali['Driver']", "KeyError")
                           /\ UNCHANGED calls
           [] r = "False" ->
                /\ example_lap' = SelectLayout(FALSE, example_lap, quali_telemetry)
                /\ Goto("L117")
                /\ UNCHANGED <<calls, caught>>
           [] OTHER ->
                /\ Catch("_lap_has_drs_activation", r)
                /\ UNCHANGED <<example_lap, calls>>
    /\ UNCHANGED <<fnvars, failed, year, round_number, session_type, session,
                   race_telemetry, fastest_lap, quali_session, fastest_quali,
                   quali_telemetry, session_info, loads, handoff>>

\* lines 114-115: except Exception as e
QualiExcept ==
    /\ pc = "L115"
    /\ calls' = Logged(calls, "Could not load qualifying session")
    /\ Goto("L117")
    /\ UNCHANGED <<fnvars, failed, year, round_number, session_type, session,
                   race_telemetry, fastest_lap, example_lap, quali_session,
                   fastest_quali, quali_telemetry, session_info, caught,
                   loads, handoff>>

\* line 117
LayoutPrepared ==
    /\ pc = "L117"
    /\ calls' = Logged(calls, "Track layout telemetry prepared")
    /\ Goto("L119")
    /\ UNCHANGED <<fnvars, failed, year, round_number, session_type, session,
                   race_telemetry, fastest_lap, example_lap, quali_session,
                   fastest_quali, quali_telemetry, session_info, caught,
                   loads, handoff>>

\* lines 119-123
GetCircuitRotation ==
    /\ pc = "L119"
    /\ calls' = Append(calls, "get_circuit_rotation")
    /\ \E ok \in BOOLEAN : IF ok THEN Goto("L126") ELSE Raise(CollaboratorError)
    /\ UNCHANGED <<fnvars, failed, year, round_number, session_type, session,
                   race_telemetry, fastest_lap, example_lap, quali_session,
                   fastest_quali, quali_telemetry, session_info, caught,
                   loads, handoff>>

\* line 134: float(example_lap["Distance"].max()) if example_lap is not None
\* and "Distance" in example_lap else None  (None is written 0)
circuit_length_m(lap) ==
    IF lap # None /\ lap.Distance # 0 THEN lap.Distance ELSE 0

\* the circuit length is taken from the race lap, whatever the layout is
BuildSessionInfo_FromRaceLap ==
    /\ pc = "L126"
    /\ session_info' =
          [total_laps |-> race_telemetry.total_laps,
           circuit_length_m |-> circuit_length_m(fastest_lap.telemetry),
           built |-> TRUE]
    /\ Goto("L138")
    /\ UNCHANGED <<fnvars, failed, year, round_number, session_type, session,
                   race_telemetry, fastest_lap, example_lap, quali_session,
                   fastest_quali, quali_telemetry, caught, calls, loads,
                   handoff>>

\* lines 126-135
BuildSessionInfo ==
    /\ pc = "L126"
    /\ \E ok \in BOOLEAN :
          IF ok
          THEN /\ session_info' =
                     [total_laps |-> race_telemetry.total_laps,
                      circuit_length_m |-> circuit_length_m(example_lap),
                      built |-> TRUE]
               /\ Goto("L138")
          ELSE \* a key or a date the record needs is not there
               /\ Raise("KeyError")
               /\ UNCHANGED session_info
    /\ UNCHANGED <<fnvars, failed, year, round_number, session_type, session,
                   race_telemetry, fastest_lap, example_lap, quali_session,
                   fastest_quali, quali_telemetry, caught, calls, loads,
                   handoff>>

\* lines 137-140
LaunchInsightsMenu ==
    /\ pc = "L138"
    /\ \E ok \in BOOLEAN :
          IF ok
          THEN /\ calls' = Logged(Logged(Append(calls, "launch_insights_menu"),
                                         "Launching insights menu..."),
                                  "Session ready for replay window")
               /\ Goto("L144")
          ELSE /\ calls' = Append(calls, "launch_insights_menu")
               /\ Raise(CollaboratorError)
    /\ UNCHANGED <<fnvars, failed, year, round_number, session_type, session,
                   race_telemetry, fastest_lap, example_lap, quali_session,
                   fastest_quali, quali_telemetry, session_info, caught,
                   loads, handoff>>

\* lines 144-159
RunArcadeReplay ==
    /\ pc = "L144"
    /\ calls' = Append(calls, "run_arcade_replay")
    /\ handoff' = [to |-> "run_arcade_replay", example_lap |-> example_lap,
                   total_laps |-> race_telemetry.total_laps,
                   session_info |-> session_info]
    /\ \E ok \in BOOLEAN :
          IF ok
          THEN /\ pc' = "done"
               /\ outcome' = "returned"
               /\ UNCHANGED exc
          ELSE Raise(CollaboratorError)
    /\ UNCHANGED <<fnvars, failed, year, round_number, session_type, session,
                   race_telemetry, fastest_lap, example_lap, quali_session,
                   fastest_quali, quali_telemetry, session_info, caught, loads>>

Next ==
    \/ Start
    \/ EnableCache
    \/ LoadSession
    \/ GetQualiTelemetry
    \/ RunQualifyingReplay
    \/ GetRaceTelemetry
    \/ PickFastest
    \/ GetTelemetry
    \/ CheckPrimary
    \/ QualiLoadSession
    \/ QualiHasLaps
    \/ QualiPickFastest
    \/ QualiGetTelemetry
    \/ QualiCheck
    \/ QualiExcept
    \/ LayoutPrepared
    \/ GetCircuitRotation
    \/ BuildSessionInfo
    \/ LaunchInsightsMenu
    \/ RunArcadeReplay

Spec == Init /\ [][Next]_vars

\* main is one thread running statement after statement, and every
\* collaborator call returns or raises: a statement that can run does run
FairSpec == Spec /\ WF_vars(Next)

(* ------------------------------------------------------------------ *)
(* _lap_has_drs_activation called on its own                          *)
(* ------------------------------------------------------------------ *)

PredicateInputs ==
    {None} \cup Telemetries("arg", Samples, MaxDrsLen, {0})

InitPredicate ==
    /\ arg \in PredicateInputs
    /\ ret = "pending"
    /\ year = 2025
    /\ round_number = 12
    /\ session_type = "R"
    /\ pc = "idle"
    /\ outcome = "running"
    /\ exc = "none"
    /\ session = "unset"
    /\ race_telemetry = NoBundle
    /\ fastest_lap = Lap("unset", None)
    /\ example_lap = None
    /\ quali_session = QualiSession("unset", "unknown")
    /\ fastest_quali = Lap("unset", None)
    /\ quali_telemetry = None
    /\ session_info = NoSessionInfo
    /\ caught = NoneCaught
    /\ calls = <<>>
    /\ loads = <<>>
    /\ failed = {}
    /\ handoff = NoHandoff

CallPredicate ==
    /\ ret = "pending"
    /\ ret' = _lap_has_drs_activation(arg)
    /\ UNCHANGED <<arg, mainvars>>

NextPredicate == CallPredicate

SpecPredicate == InitPredicate /\ [][NextPredicate]_vars

(* ------------------------------------------------------------------ *)
(* Vocabulary of the properties                                       *)
(* ------------------------------------------------------------------ *)

RaceRun == session_type \in {"R", "S"}

QualifyingRun == session_type \in {"Q", "SQ"}

InCalls(c) == \E i \in 1..Len(calls) : calls[i] = c

IsPrefix(s, t) ==
    /\ Len(s) <= Len(t)
    /\ \A i \in 1..Len(s) : s[i] = t[i]

IsLogLine(c) ==
    c \in {"_log: Loading F1", "_log: FastF1 cache initialized",
           "_log: Loaded session", "_log: Prepared qualifying telemetry dataset",
           "_log: Prepared race telemetry dataset",
           "_log: Session ready for replay window",
           "_log: Error: No valid laps found in session",
           "_log: Using fastest race lap",
           "_log: Race lap lacks clear DRS activation",
           "_log: Loaded qualifying session for DRS zone extraction",
           "_log: Using qualifying lap",
           "_log: Could not load qualifying session",
           "_log: Track layout telemetry prepared",
           "_log: Launching insights menu..."}

IsCollaboratorCall(c) == ~IsLogLine(c)

\* the collaborator calls of the run, in order, without the log lines
CollaboratorCalls == SelectSeq(calls, IsCollaboratorCall)

\* The log lines that close a stage: SessionLoaded, TelemetryAssembled,
\* LayoutResolved, Ready.
SessionLoadedLine == "_log: Loaded session"

RaceAssembledLine == "_log: Prepared race telemetry dataset"

QualiAssembledLine == "_log: Prepared qualifying telemetry dataset"

LayoutResolvedLine == "_log: Track layout telemetry prepared"

ReadyLine == "_log: Session ready for replay window"

IsStageLine(c) ==
    c \in {SessionLoadedLine, RaceAssembledLine, QualiAssembledLine,
           LayoutResolvedLine, ReadyLine}

\* the stages the run has completed so far, in order
StageTrace == SelectSeq(calls, IsStageLine)

\* position i of calls is a step of track-layout resolution: the fastest-lap
\* pick, the telemetry reads, or the secondary load_session
IsLayoutStep(i) ==
    \/ calls[i] \in {"pick_fastest", "get_telemetry", "len(quali_session.laps)",
                    "quali pick_fastest", "quali get_telemetry",
                    "_log: Using fastest race lap",
                    "_log: Race lap lacks clear DRS activation"}
    \/ /\ calls[i] = "load_session"
       /\ \E k \in 1..(i - 1) : calls[k] = "load_session"

\* main has left the layout block (line 117 is next or has run)
LayoutSettled == pc = "L117" \/ InCalls(LayoutResolvedLine)

HandedToArcade == handoff.to = "run_arcade_replay"

PrimaryActivation == _lap_has_drs_activation(fastest_lap.telemetry)

QualiActivation == _lap_has_drs_activation(fastest_quali.telemetry)

(* ------------------------------------------------------------------ *)
(* Properties of main                                                 *)
(* ------------------------------------------------------------------ *)

\* C1: in a Race/Sprint run, when the primary fastest lap's telemetry shows
\* DRS activation, example_lap is that telemetry (also as handed to
\* run_arcade_replay) and load_session is never called a second time.
C1_PrimaryActivationUsesRaceLap ==
    (RaceRun /\ PrimaryActivation = "True") =>
        /\ example_lap = fastest_lap.telemetry
        /\ example_lap.owner = "race"
        /\ Len(loads) <= 1
        /\ quali_session.state = "unset"
        /\ HandedToArcade => handoff.example_lap = fastest_lap.telemetry

C1_Witness ==
    /\ RaceRun
    /\ PrimaryActivation = "True"
    /\ HandedToArcade
    /\ outcome = "returned"

\* C2: in a Race/Sprint run, when the primary fastest lap lacks activation
\* and the qualifying session loads, has laps, and its fastest lap shows
\* activation, the layout is the qualifying lap's telemetry, not the race
\* lap's.
C2_FallbackUsesQualifyingLap ==
    (/\ RaceRun
     /\ LayoutSettled
     /\ PrimaryActivation = "False"
     /\ quali_session = QualiSession("loaded", "some")
     /\ fastest_quali.picked = "lap"
     /\ QualiActivation = "True") =>
        /\ example_lap = fastest_quali.telemetry
        /\ example_lap.owner = "quali"
        /\ example_lap # fastest_lap.telemetry
        /\ HandedToArcade => handoff.example_lap = fastest_quali.telemetry

C2_Witness ==
    /\ RaceRun
    /\ PrimaryActivation = "False"
    /\ fastest_lap.telemetry.DRS = "present"
    /\ QualiActivation = "True"
    /\ HandedToArcade
    /\ handoff.example_lap.owner = "quali"

\* the steps of the fallback attempt
FallbackSteps ==
    {"load_session", "len(quali_session.laps)", "pick_fastest", "get_telemetry",
     "_lap_has_drs_activation"}

\* C3: in a Race/Sprint run whose primary lap lacks activation, an exception
\* raised by any step of the fallback (the secondary load, len(laps), the
\* pick, get_telemetry, the activation check) does not leave main: whenever
\* main was left by an exception after the secondary load was attempted, the
\* layout block had already been completed; and once the handler caught the
\* exception of such a step the layout is the primary lap's telemetry up to
\* the hand-off.
C3_FallbackFailureIsContained ==
    RaceRun =>
        /\ (Len(loads) = 2 /\ outcome = "raised") => InCalls(LayoutResolvedLine)
        /\ (caught.step \in FallbackSteps) =>
              /\ example_lap = fastest_lap.telemetry
              /\ HandedToArcade => handoff.example_lap = fastest_lap.telemetry

C3_Witness ==
    /\ RaceRun
    /\ caught = Caught("_lap_has_drs_activation", "OverflowError")
    /\ HandedToArcade
    /\ handoff.example_lap = fastest_lap.telemetry
    /\ outcome = "returned"

\* the secondary session loaded without error and gave no lap with activation
FallbackWithoutActivation ==
    /\ caught = NoneCaught
    /\ quali_session.state = "loaded"
    /\ \/ quali_session.laps = "zero"
       \/ fastest_quali.picked = "None"
       \/ fastest_quali.picked = "lap" /\ QualiActivation = "False"

\* C4: in a Race/Sprint run whose primary lap lacks activation, when the
\* qualifying session loads but has zero laps, or no fastest lap, or a
\* fastest lap without activation, the layout stays the race lap's
\* telemetry; a qualifying lap without activation is never the layout.
C4_FallbackWithoutActivationKeepsRaceLap ==
    RaceRun =>
        /\ (LayoutSettled /\ PrimaryActivation = "False"
               /\ FallbackWithoutActivation) =>
              /\ example_lap = fastest_lap.telemetry
              /\ HandedToArcade => handoff.example_lap = fastest_lap.telemetry
        /\ (example_lap.owner = "quali") =>
              _lap_has_drs_activation(example_lap) = "True"
        /\ (HandedToArcade /\ handoff.example_lap.owner = "quali") =>
              _lap_has_drs_activation(handoff.example_lap) = "True"

C4_Witness ==
    /\ RaceRun
    /\ HandedToArcade
    /\ caught = NoneCaught
    /\ fastest_quali.picked = "lap"
    /\ fastest_quali.telemetry.DRS = "present"
    /\ Len(fastest_quali.telemetry.values) = 2
    /\ QualiActivation = "False"
    /\ handoff.example_lap = fastest_lap.telemetry

CalledOnChannel == ret # "pending" /\ arg # None /\ arg.DRS = "present"

\* the sample is a number, or the numeral of one, that is at least 10
IsNumberAtLeast10(value) ==
    \/ value.kind \in {"num", "numstr"} /\ value.val >= 10
    \/ value.kind = "bigint"

\* float() cannot convert the sample
Unparseable(value) == float(value).exc # "none"

\* C6 as stated: on a telemetry with the DRS channel the predicate returns
\* true exactly when some sample, taken as a number, is at least 10,
\* wherever it stands, and false when there is none.
C6_AsStated ==
    CalledOnChannel =>
        IF \E i \in 1..Len(arg.values) : IsNumberAtLeast10(arg.values[i])
        THEN ret = "True"
        ELSE ret = "False"

\* C7 as stated: samples float() cannot convert are skipped and the scan
\* goes on: the result is true when a convertible sample of at least 10
\* is anywhere in the channel, false otherwise (so false when no sample
\* converts).
C7_AsStated ==
    CalledOnChannel =>
        IF \E i \in 1..Len(arg.values) :
              /\ ~Unparseable(arg.values[i])
              /\ AtLeastThreshold(float(arg.values[i]))
        THEN ret = "True"
        ELSE ret = "False"

\* C8 as stated: the predicate never raises; every call returns true or
\* false.
C8_AsStated == ret \in {"pending", "True", "False"}

(* ------------------------------------------------------------------ *)
(* Order of the stages                                                *)
(* ------------------------------------------------------------------ *)

\* C9 as stated: a Race/Sprint run completes its stages in the order
\* SessionLoaded, LayoutResolved, TelemetryAssembled, Ready, and
\* get_race_telemetry is not called before the layout is resolved.
C9_AsStated ==
    RaceRun =>
        /\ IsPrefix(StageTrace,
                    <<SessionLoadedLine, LayoutResolvedLine, RaceAssembledLine,
                      ReadyLine>>)
        /\ \A i \in 1..Len(calls) :
              calls[i] = "get_race_telemetry" =>
                  \E j \in 1..(i - 1) : calls[j] = LayoutResolvedLine

\* C9 (amended): a Race/Sprint run completes its stages in the order
\* SessionLoaded, TelemetryAssembled, LayoutResolved, Ready, each at most
\* once; get_race_telemetry is called once at most and has returned before
\* any step of the layout resolution (the pick, the telemetry reads, the
\* activation checks, the secondary load) begins.
C9_AssemblyBeforeLayout ==
    RaceRun =>
        /\ IsPrefix(StageTrace,
                    <<SessionLoadedLine, RaceAssembledLine, LayoutResolvedLine,
                      ReadyLine>>)
        /\ \A i \in 1..Len(calls) :
              IsLayoutStep(i) =>
                  \E j \in 1..(i - 1) : calls[j] = RaceAssembledLine
        /\ \A i, j \in 1..Len(calls) :
              (calls[i] = "get_race_telemetry" /\ calls[j] = "get_race_telemetry")
                  => i = j

C9_Witness ==
    /\ RaceRun
    /\ Len(loads) = 2
    /\ StageTrace = <<SessionLoadedLine, RaceAssembledLine, LayoutResolvedLine,
                      ReadyLine>>
    /\ HandedToArcade

\* C10: a Q or SQ run calls, after the load, only get_quali_telemetry and
\* then run_qualifying_replay: no fastest-lap pick, no activation check, no
\* second load_session, and run_arcade_replay is never invoked.
C10_QualifyingSkipsLayout ==
    QualifyingRun =>
        /\ IsPrefix(CollaboratorCalls,
                    <<"enable_cache", "load_session", "get_quali_telemetry",
                      "run_qualifying_replay">>)
        /\ IsPrefix(StageTrace,
                    <<SessionLoadedLine, QualiAssembledLine, ReadyLine>>)
        /\ \A i \in 1..Len(calls) : ~IsLayoutStep(i)
        /\ Len(loads) <= 1
        /\ fastest_lap.picked = "unset"
        /\ example_lap = None
        /\ handoff.to # "run_arcade_replay"

C10_Witness ==
    /\ session_type = "SQ"
    /\ handoff.to = "run_qualifying_replay"
    /\ outcome = "returned"
    /\ StageTrace = <<SessionLoadedLine, QualiAssembledLine, ReadyLine>>

(* ------------------------------------------------------------------ *)
(* Failures, calls and hand-off                                       *)
(* ------------------------------------------------------------------ *)

\* how many entries of calls are c
Count(c) == Cardinality({i \in 1..Len(calls) : calls[i] = c})

\* C11: when the primary load_session call raises, for any session type,
\* that exception itself leaves main and nothing after line 53 has run: no
\* stage is completed, no telemetry is assembled, no lap is picked, there
\* is no second load and nothing is handed over.
C11_PrimaryLoadFailureIsFatal ==
    ("load_session" \in failed) =>
        /\ pc = "done"
        /\ outcome = "raised"
        /\ exc = CollaboratorError
        /\ CollaboratorCalls = <<"enable_cache", "load_session">>
        /\ StageTrace = <<>>
        /\ Len(loads) = 1
        /\ session = "unset"
        /\ race_telemetry = NoBundle
        /\ fastest_lap.picked = "unset"
        /\ caught = NoneCaught
        /\ session_info = NoSessionInfo
        /\ handoff = NoHandoff

C11_Witness ==
    /\ "load_session" \in failed
    /\ session_type = "SQ"
    /\ outcome = "raised"

\* C13: load_session is called at most twice. The first call has main's
\* (year, round_number, session_type); a run that got past line 53 has made
\* it. A second call is made only in a Race/Sprint run, after the primary
\* fastest lap's check returned false, with the same year and round and
\* session type 'Q', for a Sprint too.
C13_AtMostTwoLoads ==
    /\ Len(loads) <= 2
    /\ Count("load_session") = Len(loads)
    /\ (InCalls("_log: FastF1 cache initialized") /\ pc # "L53") => Len(loads) >= 1
    /\ (Len(loads) >= 1) => loads[1] = <<year, round_number, session_type>>
    /\ (Len(loads) = 2) =>
          /\ loads[2] = <<year, round_number, "Q">>
          /\ RaceRun
          /\ fastest_lap.picked = "lap"
          /\ PrimaryActivation = "False"
          /\ InCalls("_log: Race lap lacks clear DRS activation")
          /\ ~InCalls("_log: Using fastest race lap")

C13_Witness ==
    /\ session_type = "S"
    /\ Len(loads) = 2
    /\ loads[2] = <<year, round_number, "Q">>
    /\ pc = "done"

\* C14: when the primary session of a Race/Sprint run yields no fastest
\* lap, neither launch_insights_menu nor run_arcade_replay is called, no
\* session info is built and the qualifying session is not loaded.
C14_NoLapsNothingDownstream ==
    (RaceRun /\ fastest_lap.picked = "None") =>
        /\ ~InCalls("launch_insights_menu")
        /\ ~InCalls("run_arcade_replay")
        /\ ~InCalls("run_qualifying_replay")
        /\ ~InCalls("get_circuit_rotation")
        /\ ~InCalls("get_telemetry")
        /\ session_info.built = FALSE
        /\ Len(loads) = 1
        /\ quali_session.state = "unset"
        /\ handoff.to = "none"

C14_Witness ==
    /\ RaceRun
    /\ fastest_lap.picked = "None"
    /\ race_telemetry.assembled
    /\ outcome = "returned"

\* C15: enable_cache is the first collaborator call of every run and is
\* called once only; every load_session call, the fallback's included,
\* comes after enable_cache has returned.
C15_CacheEnabledBeforeLoads ==
    /\ Count("enable_cache") <= 1
    /\ (pc \notin {"L44", "L49"}) => Count("enable_cache") = 1
    /\ (Len(CollaboratorCalls) >= 1) => CollaboratorCalls[1] = "enable_cache"
    /\ \A i \in 1..Len(calls) :
          calls[i] = "load_session" =>
              \E j \in 1..(i - 1) : calls[j] = "_log: FastF1 cache initialized"

C15_Witness ==
    /\ Len(loads) = 2
    /\ Count("enable_cache") = 1
    /\ Count("load_session") = 2
    /\ pc = "done"

\* the replay hand-offs made so far
HandoffCalls == Count("run_arcade_replay") + Count("run_qualifying_replay")

\* no statement of main has run twice: every collaborator is called once at
\* most (load_session twice), and every stage line is logged once at most
NothingRepeated ==
    /\ \A c \in {"enable_cache", "get_quali_telemetry", "run_qualifying_replay",
                 "get_race_telemetry", "pick_fastest", "get_telemetry",
                 "len(quali_session.laps)", "quali pick_fastest",
                 "quali get_telemetry", "get_circuit_rotation",
                 "launch_insights_menu", "run_arcade_replay"} : Count(c) <= 1
    /\ Count("load_session") <= 2
    /\ \A c \in {SessionLoadedLine, RaceAssembledLine, QualiAssembledLine,
                 LayoutResolvedLine, ReadyLine} : Count(c) <= 1

\* the hand-off, once made, is the last thing main did
HandoffIsFinal ==
    /\ HandoffCalls <= 1
    /\ QualifyingRun => Count("run_arcade_replay") = 0
    /\ ~QualifyingRun => Count("run_qualifying_replay") = 0
    /\ (HandoffCalls = 1) =>
          /\ pc = "done"
          /\ calls[Len(calls)] =
                IF QualifyingRun THEN "run_qualifying_replay" ELSE "run_arcade_replay"
    /\ (InCalls(ReadyLine) /\ pc = "done") => HandoffCalls = 1

\* C16: with every collaborator call returning or raising, every run of
\* main ends; a run that reached Ready makes exactly one hand-off, to
\* run_qualifying_replay for Q/SQ and to run_arcade_replay otherwise, as the
\* last thing it does, and no statement is run again.
C16_TerminatesWithOneHandoff ==
    /\ <>(pc = "done")
    /\ [](HandoffIsFinal /\ NothingRepeated)

C16_Witness ==
    /\ pc = "done"
    /\ outcome = "returned"
    /\ InCalls(ReadyLine)
    /\ Len(loads) = 2
    /\ HandoffCalls = 1
    /\ calls[Len(calls)] = "run_arcade_replay"

\* C17: in a Race/Sprint run that reaches run_arcade_replay there is one
\* track layout, the example_lap handed over: the qualifying lap's
\* telemetry when the fallback replaced the layout, the primary lap's
\* otherwise. The session info handed over is the one built at lines
\* 126-135: its circuit_length_m is the Distance maximum of that same
\* telemetry (None, written 0, when the telemetry is None or has no Distance
\* column) and its total_laps is the total_laps argument.
C17_SessionInfoMatchesLayout ==
    HandedToArcade =>
        /\ RaceRun
        /\ handoff.example_lap = example_lap
        /\ handoff.example_lap =
              IF example_lap.owner = "quali"
              THEN fastest_quali.telemetry
              ELSE fastest_lap.telemetry
        /\ (example_lap.owner = "quali") <=>
              (fastest_quali.picked = "lap" /\ QualiActivation = "True")
        /\ handoff.session_info = session_info
        /\ session_info.built
        /\ handoff.session_info.circuit_length_m =
              IF handoff.example_lap = None \/ handoff.example_lap.Distance = 0
              THEN 0
              ELSE handoff.example_lap.Distance
        /\ handoff.session_info.total_laps = handoff.total_laps
        /\ handoff.total_laps = race_telemetry.total_laps

C17_Witness ==
    /\ HandedToArcade
    /\ handoff.example_lap.owner = "quali"
    /\ handoff.example_lap.Distance = 5001
    /\ fastest_lap.telemetry.Distance = 5000
    /\ handoff.session_info.circuit_length_m = 5001
    /\ handoff.total_laps = 58

\* the statements of the race branch that run before the try
UnguardedSteps == {"get_race_telemetry", "pick_fastest", "get_telemetry"}

\* C18: an exception raised by get_race_telemetry, by the primary
\* pick_fastest or by the primary get_telemetry (and one raised by the
\* primary activation check) is not caught: it leaves main at once and
\* nothing is handed over. The except clause is entered only for a
\* statement inside the try of the qualifying fallback.
C18_SuppressionOnlyInFallback ==
    /\ \A step \in UnguardedSteps :
          (step \in failed) =>
              /\ pc = "done"
              /\ outcome = "raised"
              /\ exc = CollaboratorError
              /\ calls[Len(calls)] = step
              /\ caught = NoneCaught
              /\ Len(loads) = 1
              /\ ~InCalls("launch_insights_menu")
              /\ ~InCalls("run_arcade_replay")
              /\ handoff = NoHandoff
    /\ (PrimaryActivation \notin {"True", "False"} /\ pc # "L98") =>
          /\ pc = "done"
          /\ outcome = "raised"
          /\ exc = PrimaryActivation
          /\ Len(loads) = 1
          /\ handoff = NoHandoff
    /\ (caught # NoneCaught) =>
          /\ caught.step \in FallbackSteps \cup {"fastest_quali['Driver']"}
          /\ Len(loads) = 2
          /\ InCalls("_log: Race lap lacks clear DRS activation")
          /\ failed = {}

C18_Witness ==
    /\ "get_telemetry" \in failed
    /\ race_telemetry.assembled
    /\ fastest_lap.picked = "lap"
    /\ outcome = "raised"

====
